---- MODULE Spec2Model ----
(***************************************************************************)
(* A model of the ItyFuzz benchmarking harness: the two orchestrators     *)
(* (run_ityfuzz_evm.py, "ablation"; rq3_state_overhead.py, "rq3"), their   *)
(* fixture generators, the log scraper, the poller thread of the rq3 run, *)
(* the result writer and the visualizer (rq3_visualization.py).           *)
(*                                                                         *)
(* Units.  Wall-clock time is counted in centiseconds since the run's     *)
(* `start = time.time()`; a sample's timestamp is counted in tenths of a  *)
(* second; a float the code computes by true division is kept as an exact *)
(* fraction <<numerator, denominator>>.                                   *)
(***************************************************************************)
EXTENDS Integers, Sequences, FiniteSets, TLC

VARIABLES
    variant,      \* which orchestrator runs: "ablation" or "rq3"
    mode,         \* entry point: "sweep", "single", "fixtures", "scrape",
                  \* "poll", "save", "viz"
    timeout,      \* self.timeout, in seconds
    fs,           \* contracts/<name>.sol: its content, or NoFile
    pc,           \* position of the main thread
    ci,           \* outer loop: index into the contract catalog
    cj,           \* inner loop: index into the configuration catalog
    current,      \* the progress counter `current`
    progress,     \* one entry per run started: what was printed for it
                  \* and what the run met (history)
    allResults,   \* all_results
    result,       \* the result dict of the run in progress (or the last run)
    clock,        \* centiseconds since `start`
    waitStart,    \* clock value at which proc.wait was called
    killedAt,     \* <<clock>> at which this run's proc.kill() ran, else <<>>
    procs,        \* subprocesses launched and still alive (by run number)
    faults,       \* environment deviations spent so far (bounded)
    logFile,      \* the run's log file: NoLog or Log(its lines)
    metrics,      \* value returned by the latest parse_state_metrics call
    prevMetrics,  \* value returned by the call before that
    scrapes,      \* number of parse_state_metrics calls made
    dirExists,    \* whether the contracts/ directory exists
    genBefore,    \* fs as it was when the latest fixture generation started
    gens,         \* number of fixture generations run
    out,          \* what save_results produced: rows, table lines, summary
    logs,         \* the logs/ directory: the log file of each pair
    saves,        \* number of save_results calls made
    poller,       \* the poller thread of the rq3 run in progress: its
                  \* position, the lines it has read, its metrics_history
    stray,        \* a file in the working directory whose path is the text
                  \* of a log line (or none)
    viz           \* the visualizer script and the results_rq3/ tree it finds

vars == <<variant, mode, timeout, fs, pc, ci, cj, current, progress,
          allResults, result, clock, waitStart, killedAt, procs, faults,
          logFile, metrics, prevMetrics, scrapes, dirExists, genBefore, gens,
          out, logs, saves, poller, stray, viz>>

-----------------------------------------------------------------------------
(* Bounds of the model *)

NumContracts == 2     \* the sweep uses this prefix of the contract catalog
MaxFaults    == 2     \* environment deviations per behaviour
MaxLines     == 2     \* lines in a log file
MaxScrapes   == 2     \* parse_state_metrics calls on one file
MaxGens      == 2     \* fixture generations per behaviour
MaxSlack     == 2     \* centiseconds the clock may run past the deadline
MaxSpawn     == 1     \* centiseconds Popen may take
MaxTimeout   == 1     \* largest timeout (seconds) a single run is given
MaxSaves     == 2     \* save_results calls per behaviour
MaxResults   == 2     \* results in a list handed to save_results

(* Program constants *)

Grace == 10           \* proc.wait(timeout=self.timeout + 10)

NoFile == "<absent>"

\* Python values a detection_time can hold, each tagged with what it is
PyNone       == <<"None">>
TimeoutToken == <<"Timeout">>

\* nothing written or printed by save_results yet
NoOutput == [csv |-> <<>>, written |-> FALSE, json |-> <<>>,
             jsonWritten |-> FALSE, prior |-> 0, table |-> <<>>,
             summary |-> <<>>, raised |-> FALSE]

-----------------------------------------------------------------------------
(* helpers *)

Last(s) == s[Len(s)]

RECURSIVE SeqSum(_)
SeqSum(s) == IF s = <<>> THEN 0 ELSE s[1] + SeqSum(Tail(s))

\* Python's max() over a non-empty list: a left fold keeping the larger.
RECURSIVE SeqMax(_)
SeqMax(s) ==
    IF Len(s) = 1 THEN s[1]
    ELSE LET m == SeqMax(Tail(s)) IN IF s[1] >= m THEN s[1] ELSE m

\* exact fractions
RatEq(a, b) == a[1] * b[2] = b[1] * a[2]
Zero == <<0, 1>>

-----------------------------------------------------------------------------
(* Log scraper: RQ3StateOverheadAnalyzer.parse_state_metrics              *)
(*                                                                         *)
(* A line is what the four re.search calls make of it: for each pattern   *)
(* <<>> when it does not match and <<v>> when it matches with group(1)    *)
(* converting to v.                                                        *)

StateVals  == {4}
CorpusVals == {1, 5}
TimeVals   == {30}
MemoryVals == {2, 7}

Opt(S) == {<<>>} \cup {<<v>> : v \in S}

Lines == [state_match  : Opt(StateVals),
          corpus_match : Opt(CorpusVals),
          time_match   : Opt(TimeVals),
          memory_match : Opt(MemoryVals)]

\* a log file on disk
NoLog      == [exists |-> FALSE, lines |-> <<>>]
Log(lines) == [exists |-> TRUE, lines |-> lines]

LogFiles == {Log(l) : l \in UNION {[1..n -> Lines] : n \in 0..MaxLines}}

\* lines the subprocess writes: a progress line with a bracketed time only,
\* a corpus line with a bracketed time, a memory line
NoMetricLine == [state_match |-> <<>>, corpus_match |-> <<>>,
                 time_match |-> <<30>>, memory_match |-> <<>>]
CorpusLine   == [state_match |-> <<>>, corpus_match |-> <<5>>,
                 time_match |-> <<30>>, memory_match |-> <<>>]
MemoryLine   == [state_match |-> <<>>, corpus_match |-> <<>>,
                 time_match |-> <<>>, memory_match |-> <<7>>]

ProcLines == {NoMetricLine, CorpusLine, MemoryLine}

\* a scraper that also takes a bracketed timestamp for a metric
AnyMatchOfFour(line) ==
    \/ line.state_match # <<>>
    \/ line.corpus_match # <<>>
    \/ line.time_match # <<>>
    \/ line.memory_match # <<>>

\* any([state_match, corpus_match, memory_match])
AnyMatch(line) ==
    \/ line.state_match # <<>>
    \/ line.corpus_match # <<>>
    \/ line.memory_match # <<>>

\* the dict built for a matching line; n = len(metrics) at that moment
Metric(line, n) ==
    [timestamp   |-> IF line.time_match # <<>> THEN line.time_match[1] ELSE n * 5,
     state_size  |-> IF line.state_match # <<>> THEN line.state_match[1] ELSE 0,
     corpus_size |-> IF line.corpus_match # <<>> THEN line.corpus_match[1] ELSE 0,
     memory_mb   |-> IF line.memory_match # <<>> THEN line.memory_match[1] ELSE 0]

RECURSIVE ParseLines(_, _)
ParseLines(lines, acc) ==
    IF lines = <<>> THEN acc
    ELSE ParseLines(Tail(lines),
                    IF AnyMatch(Head(lines))
                    THEN Append(acc, Metric(Head(lines), Len(acc)))
                    ELSE acc)

\* metrics = []; open() of a missing file raises, is caught, and [] is returned
ParseStateMetrics(file) ==
    IF ~file.exists THEN <<>> ELSE ParseLines(file.lines, <<>>)

-----------------------------------------------------------------------------
(* Run results *)

\* the dict built before the try block
NewResult(v, contract, config) ==
    IF v = "ablation"
    THEN [project |-> contract, config |-> config, exploit_type |-> "various",
          start_time |-> "iso", timeout |-> FALSE, oom |-> FALSE,
          detection_time |-> PyNone, status |-> "pending"]
    ELSE [project |-> contract, config |-> config, start_time |-> "iso",
          status |-> "pending", timeout |-> FALSE, oom |-> FALSE,
          detection_time |-> PyNone, max_state_corpus |-> 0,
          final_memory_mb |-> 0, avg_memory_mb |-> Zero,
          state_growth_rate |-> Zero, metrics_timeline |-> <<>>]

\* result[key] = value (the key may be new)
Put(r, key, value) ==
    [k \in DOMAIN r \cup {key} |-> IF k = key THEN value ELSE r[k]]

\* a rendering that cuts the digits after the first decimal
FormatElapsedCut(cs) == <<"s", cs \div 100, (cs \div 10) % 10>>

\* f"{elapsed:.1f}s": elapsed (centiseconds) rounded to tenths of a second,
\* as <<"s", whole seconds, tenth>>
FormatElapsed(cs) ==
    LET tenths == (cs + 5) \div 10
    IN  <<"s", tenths \div 10, tenths % 10>>

\* proc.wait returned
Completed(r, elapsed) ==
    Put(Put(r, "detection_time", FormatElapsed(elapsed)), "status", "completed")

\* a timeout branch that forgets the flag
TimedOutNoFlag(r) ==
    Put(Put(r, "status", "timeout"), "detection_time", TimeoutToken)

\* subprocess.TimeoutExpired
TimedOut(r) ==
    Put(Put(Put(r, "timeout", TRUE), "status", "timeout"),
        "detection_time", TimeoutToken)

\* a handler that records the text and leaves the status alone
ErroredKeepingStatus(r, e) == Put(r, "error", e)

\* except Exception as e
Errored(r, e) == Put(Put(r, "status", "error"), "error", e)

\* a growth rate taken per interval between samples, not per sample
GrowthRatePerInterval(corpus_sizes) ==
    <<Last(corpus_sizes) - corpus_sizes[1], Len(corpus_sizes) - 1>>

\* (corpus_sizes[-1] - corpus_sizes[0]) / max(len(corpus_sizes), 1)
GrowthRate(corpus_sizes) ==
    <<Last(corpus_sizes) - corpus_sizes[1],
      IF Len(corpus_sizes) >= 1 THEN Len(corpus_sizes) ELSE 1>>

\* a summary that reports the final corpus size as the maximum
FinalCorpus(corpus_sizes) == Last(corpus_sizes)

\* max(corpus_sizes)
MaxStateCorpus(corpus_sizes) == SeqMax(corpus_sizes)

\* memory_values[-1]
FinalMemory(memory_values) == Last(memory_values)

\* sum(memory_values) / len(memory_values)
AvgMemory(memory_values) == <<SeqSum(memory_values), Len(memory_values)>>

\* lines 319-331 of rq3_state_overhead.py, given the scraped samples
WithMetrics(r, m) ==
    LET r1 == Put(r, "metrics_timeline", m) IN
    IF m = <<>> THEN r1
    ELSE LET corpus_sizes  == [i \in 1..Len(m) |-> m[i].corpus_size]
             memory_values == [i \in 1..Len(m) |-> m[i].memory_mb]
             r2 == Put(r1, "max_state_corpus", MaxStateCorpus(corpus_sizes))
             r3 == Put(r2, "final_memory_mb", FinalMemory(memory_values))
             r4 == Put(r3, "avg_memory_mb", AvgMemory(memory_values))
         IN  IF Len(corpus_sizes) > 1
             THEN Put(r4, "state_growth_rate", GrowthRate(corpus_sizes))
             ELSE r4

-----------------------------------------------------------------------------
(* Fixture generators *)

Contracts == <<"dvd_unstoppable", "bacon_protocol", "n00d_token",
               "egd_finance", "contract1_undisclosed", "contract2_undisclosed">>

ConfigNames == <<"ItyFuzz", "ItyFuzz-DF", "ItyFuzz-Rand">>

\* the catalog prefix the model works with
Names == {Contracts[i] : i \in 1..NumContracts}

NumConfigs == Len(ConfigNames)

\* total_tests = len(self.contracts) * len(self.configs)
NumPairs == NumContracts * NumConfigs

\* logs/<contract>_<config>.log, one per pair, none of them there
NoLogs == [p \in 1..NumPairs |-> NoLog]

\* the logs an earlier sweep left, one per pair
StaleLogs == [p \in 1..NumPairs |-> Log(<<CorpusLine>>)]

\* no poller thread
NoPoller == [pc |-> "off", pos |-> 0, history |-> <<>>]

\* no file named like a log line
NoStray == [name |-> <<>>, file |-> NoLog]

\* results_rq3/data/rq3_metrics.json: absent
NoMetricsFile == [exists |-> FALSE, blank |-> FALSE, doc |-> <<>>]

\* the visualizer script not started, in an empty working directory
NoViz == [pc |-> "off", resultsDir |-> FALSE, plotsDir |-> FALSE,
          metricsFile |-> NoMetricsFile, images |-> {}, made |-> {},
          raised |-> FALSE]

\* the literal each generator writes for a name (a literal is named by the
\* script and the local variable that holds it)
Template(v, name) ==
    IF v = "ablation"
    THEN CASE name = "dvd_unstoppable"       -> "run_ityfuzz_evm.dos_contract"
           [] name = "bacon_protocol"        -> "run_ityfuzz_evm.reentrancy_contract"
           [] name = "n00d_token"            -> "run_ityfuzz_evm.dos_contract"
           [] name = "egd_finance"           -> "run_ityfuzz_evm.manipulation_contract"
           [] name = "contract1_undisclosed" -> "run_ityfuzz_evm.reentrancy_contract"
           [] name = "contract2_undisclosed" -> "run_ityfuzz_evm.dos_contract"
    ELSE CASE name = "dvd_unstoppable"       -> "rq3_state_overhead.dos"
           [] name = "bacon_protocol"        -> "rq3_state_overhead.reentrancy"
           [] name = "n00d_token"            -> "rq3_state_overhead.access"
           [] name = "egd_finance"           -> "rq3_state_overhead.manipulation"
           [] name = "contract1_undisclosed" -> "rq3_state_overhead.access"
           [] name = "contract2_undisclosed" -> "rq3_state_overhead.reentrancy"

ManualEdit == "<edited by hand>"

Contents == {Template(v, n) : v \in {"ablation", "rq3"}, n \in Names}
                \cup {ManualEdit}

\* a generator that rewrites every fixture
WriteAlways(v, name, old) == Template(v, name)

\* if not contract_file.exists(): contract_file.write_text(code)
WriteIfAbsent(v, name, old) == IF old = NoFile THEN Template(v, name) ELSE old

\* the loop over contracts.items(), in a directory that exists
GenerateInto(v, files) == [n \in Names |-> WriteIfAbsent(v, n, files[n])]

\* __init__ of the ablation runner makes contracts/; that of the rq3
\* analyzer makes results_rq3/, logs/ and data/ only
DirAfterInit(v, d) == IF v = "ablation" THEN TRUE ELSE d

\* write_text into a missing directory raises FileNotFoundError, which
\* nothing catches
GenerateRaises(v, d, files) ==
    /\ ~DirAfterInit(v, d)
    /\ \E n \in Names : files[n] = NoFile

-----------------------------------------------------------------------------
(* Specification of the fixture generators alone: either script's         *)
(* constructor and generator run, any number of times, in a working       *)
(* directory that people also edit.                                        *)

runIdle ==
    /\ ci = 1 /\ cj = 1 /\ current = 0 /\ progress = <<>>
    /\ allResults = <<>> /\ result = <<>> /\ clock = 0 /\ waitStart = 0
    /\ killedAt = <<>> /\ procs = {} /\ out = NoOutput

scrapeIdle ==
    /\ logFile = NoLog /\ metrics = <<>> /\ prevMetrics = <<>> /\ scrapes = 0

sideIdle ==
    /\ logs = NoLogs /\ saves = 0 /\ poller = NoPoller /\ stray = NoStray
    /\ viz = NoViz

runVars    == <<timeout, ci, cj, current, progress, allResults, result,
                clock, waitStart, killedAt, procs, out>>
scrapeVars == <<logFile, metrics, prevMetrics, scrapes>>
fixVars    == <<fs, dirExists, genBefore, gens>>
sideVars   == <<logs, saves, poller, stray, viz>>

FixInit ==
    /\ mode = "fixtures" /\ variant \in {"ablation", "rq3"} /\ pc = "idle"
    /\ dirExists \in BOOLEAN
    /\ fs \in [Names -> Contents \cup {NoFile}]
    /\ dirExists = FALSE => fs = [n \in Names |-> NoFile]
    /\ genBefore = fs /\ gens = 0 /\ faults = 0 /\ timeout = 0
    /\ runIdle /\ scrapeIdle /\ sideIdle

\* one script is started: its constructor, then its fixture generator
Generate(v) ==
    /\ mode = "fixtures" /\ gens < MaxGens
    /\ variant' = v
    /\ gens' = gens + 1
    /\ genBefore' = fs
    /\ dirExists' = DirAfterInit(v, dirExists)
    /\ IF GenerateRaises(v, dirExists, fs)
       THEN fs' = fs /\ pc' = "raised"
       ELSE fs' = GenerateInto(v, fs) /\ pc' = "idle"
    /\ UNCHANGED <<mode, faults>> /\ UNCHANGED runVars /\ UNCHANGED scrapeVars
    /\ UNCHANGED sideVars

\* somebody edits or creates a fixture by hand
EditFixture(n) ==
    /\ mode = "fixtures" /\ dirExists /\ faults < MaxFaults
    /\ fs[n] # ManualEdit
    /\ fs' = [fs EXCEPT ![n] = ManualEdit]
    /\ faults' = faults + 1
    /\ UNCHANGED <<variant, mode, pc, dirExists, genBefore, gens>>
    /\ UNCHANGED runVars /\ UNCHANGED scrapeVars
    /\ UNCHANGED sideVars

\* somebody deletes a fixture
DeleteFixture(n) ==
    /\ mode = "fixtures" /\ faults < MaxFaults
    /\ fs[n] # NoFile
    /\ fs' = [fs EXCEPT ![n] = NoFile]
    /\ faults' = faults + 1
    /\ UNCHANGED <<variant, mode, pc, dirExists, genBefore, gens>>
    /\ UNCHANGED runVars /\ UNCHANGED scrapeVars
    /\ UNCHANGED sideVars

FixNext ==
    \/ \E v \in {"ablation", "rq3"} : Generate(v)
    \/ \E n \in Names : EditFixture(n)
    \/ \E n \in Names : DeleteFixture(n)

SpecFixtures == FixInit /\ [][FixNext]_vars

\* C1: a fixture generation leaves every fixture file that exists when it
\* starts with the content it had; only absent files are written.
C1_ExistingFixturesUntouched ==
    [][gens' # gens =>
          \A n \in Names : fs[n] # NoFile => fs'[n] = fs[n]]_vars

\* a generation has just run over a hand-edited file and over a file of the
\* other script's generator, kept both, and written an absent one
C1_Witness ==
    /\ gens > 0 /\ pc = "idle"
    /\ \E a, b \in Names :
          /\ genBefore[a] = NoFile /\ fs[a] = Template(variant, a)
          /\ genBefore[b] \notin {NoFile, Template(variant, b)}
          /\ fs[b] = genBefore[b]

-----------------------------------------------------------------------------
(* Specification of the scraper and the summary reduction alone: the rq3  *)
(* run has reached line 318 (its wait has ended one way or the other)     *)
(* with some log file on disk; the scrape of lines 319-331 follows, and   *)
(* the file may then be scraped again.                                     *)

ElapsedSamples == {1234}

ScrapeInit ==
    /\ mode = "scrape" /\ variant = "rq3" /\ pc = "waited"
    /\ logFile \in LogFiles \cup {NoLog}
    /\ \E e \in ElapsedSamples :
          result \in {Completed(NewResult("rq3", Contracts[1], ConfigNames[1]), e),
                      TimedOut(NewResult("rq3", Contracts[1], ConfigNames[1]))}
    /\ metrics = <<>> /\ prevMetrics = <<>> /\ scrapes = 0
    /\ timeout = 0 /\ ci = 1 /\ cj = 1 /\ current = 0 /\ progress = <<>>
    /\ allResults = <<>> /\ clock = 0 /\ waitStart = 0 /\ killedAt = <<>>
    /\ procs = {} /\ out = NoOutput
    /\ dirExists = TRUE /\ fs = [n \in Names |-> NoFile] /\ genBefore = fs
    /\ gens = 0 /\ faults = 0
    /\ sideIdle

\* lines 319-333: metrics = self.parse_state_metrics(str(log_file)) and the
\* summary reduction over it
CollectMetrics ==
    /\ mode = "scrape" /\ pc = "waited"
    /\ metrics' = ParseStateMetrics(logFile)
    /\ prevMetrics' = metrics
    /\ scrapes' = scrapes + 1
    /\ result' = Put(WithMetrics(result, metrics'), "end_time", "iso")
    /\ pc' = "returned"
    /\ UNCHANGED <<variant, mode, timeout, ci, cj, current, progress,
                   allResults, clock, waitStart, killedAt, procs, faults,
                   logFile, out>>
    /\ UNCHANGED fixVars
    /\ UNCHANGED sideVars

\* parse_state_metrics is called again on the file as it is
Rescrape ==
    /\ mode = "scrape" /\ pc = "returned" /\ scrapes < MaxScrapes
    /\ metrics' = ParseStateMetrics(logFile)
    /\ prevMetrics' = metrics
    /\ scrapes' = scrapes + 1
    /\ UNCHANGED <<variant, mode, timeout, pc, ci, cj, current, progress,
                   allResults, result, clock, waitStart, killedAt, procs,
                   faults, logFile, out>>
    /\ UNCHANGED fixVars
    /\ UNCHANGED sideVars

ScrapeNext == CollectMetrics \/ Rescrape

SpecScrape == ScrapeInit /\ [][ScrapeNext]_vars

\* what the claims say of a log file, stated without the scraper's fold
FileLines == logFile.lines

Emits(line) ==
    \E k \in {"state_match", "corpus_match", "memory_match"} : Len(line[k]) = 1

EmittingLines == SelectSeq(FileLines, Emits)

ValueOrZero(m) == IF Len(m) = 1 THEN m[1] ELSE 0

\* C8: the scraper emits one sample per line on which the state, corpus or
\* memory pattern matches and none for any other line, in line order, each
\* carrying the matched values and 0 for an unmatched field; scraping the
\* unmodified file again gives the same sequence.
C8_EmissionRule ==
    scrapes > 0 =>
        /\ Len(metrics) = Len(EmittingLines)
        /\ \A i \in 1..Len(metrics) :
              /\ metrics[i].state_size  = ValueOrZero(EmittingLines[i].state_match)
              /\ metrics[i].corpus_size = ValueOrZero(EmittingLines[i].corpus_match)
              /\ metrics[i].memory_mb   = ValueOrZero(EmittingLines[i].memory_match)
        /\ scrapes > 1 => metrics = prevMetrics

\* a two-line file scraped twice: a line with only a timestamp (no sample)
\* and then a line with only a memory figure (one sample, zeros elsewhere)
C8_Witness ==
    /\ scrapes = 2 /\ logFile.exists /\ Len(FileLines) = 2
    /\ FileLines[1].time_match # <<>> /\ ~Emits(FileLines[1])
    /\ FileLines[2].memory_match # <<>> /\ FileLines[2].corpus_match = <<>>
    /\ Len(metrics) = 1 /\ metrics[1].corpus_size = 0

Timeline == result.metrics_timeline

RECURSIVE MemoryUpTo(_)
MemoryUpTo(n) == IF n = 0 THEN 0 ELSE Timeline[n].memory_mb + MemoryUpTo(n - 1)

\* C9: with corpus sizes c0..cn the recorded growth rate is (cn - c0)/(n+1);
\* a single sample, or no sample, records 0.
C9_GrowthRate ==
    pc = "returned" =>
        IF Len(Timeline) = 0
        THEN RatEq(result.state_growth_rate, Zero)
        ELSE RatEq(result.state_growth_rate,
                   <<Timeline[Len(Timeline)].corpus_size - Timeline[1].corpus_size,
                     Len(Timeline)>>)

\* a run with two samples whose corpus grew, and so a rate that is not 0
C9_Witness ==
    /\ pc = "returned" /\ Len(Timeline) = 2
    /\ Timeline[2].corpus_size > Timeline[1].corpus_size
    /\ ~RatEq(result.state_growth_rate, Zero)

\* C10: max_state_corpus is the largest corpus_size, final_memory_mb the last
\* sample's memory_mb, avg_memory_mb the sum of memory_mb over the sample
\* count; all three stay 0 without samples; for completed and timed-out runs.
C10_SummaryReduction ==
    pc = "returned" =>
        IF Len(Timeline) = 0
        THEN /\ result.max_state_corpus = 0
             /\ result.final_memory_mb = 0
             /\ RatEq(result.avg_memory_mb, Zero)
        ELSE LET idx == 1..Len(Timeline) IN
             /\ \E i \in idx : result.max_state_corpus = Timeline[i].corpus_size
             /\ \A i \in idx : result.max_state_corpus >= Timeline[i].corpus_size
             /\ result.final_memory_mb = Timeline[Len(Timeline)].memory_mb
             /\ RatEq(result.avg_memory_mb,
                      <<MemoryUpTo(Len(Timeline)), Len(Timeline)>>)

\* a timed-out run with two samples whose maximum is not the last corpus
\* size and whose memory figures differ
C10_Witness ==
    /\ pc = "returned" /\ result.status = "timeout" /\ Len(Timeline) = 2
    /\ Timeline[1].corpus_size > Timeline[2].corpus_size
    /\ Timeline[1].memory_mb # Timeline[2].memory_mb
    /\ result.max_state_corpus = Timeline[1].corpus_size

-----------------------------------------------------------------------------
(* Run orchestrator: run_fuzzing / run_fuzzing_with_metrics, the sweep of *)
(* run_all_tests / run_rq3_analysis, and save_results                     *)

Variants == {"ablation", "rq3"}

\* main(): ItyFuzzRunner(timeout=60), RQ3StateOverheadAnalyzer(timeout=120)
MainTimeout(v) == IF v = "ablation" THEN 60 ELSE 120

\* a wait without the grace period
DeadlineNoGrace(t) == t * 100

\* proc.wait(timeout=self.timeout + 10), in centiseconds
Deadline(t) == (t + Grace) * 100

\* the number of the run in progress: the subprocess it launches is known
\* by it
Pid == Len(progress)

\* the pair in progress, counted in catalog order; its log file is
\* logs/<contract>_<config>.log
PairNo == (ci - 1) * NumConfigs + cj

\* history h with one field of its latest entry (the run in progress) set
NoteIn(h, field, value) ==
    [h EXCEPT ![Len(h)] = [@ EXCEPT ![field] = value]]

\* the loops nested the other way round
AfterPairConfigMajor(i, j) ==
    IF i < NumContracts THEN [ci |-> i + 1, cj |-> j, pc |-> "loop"]
    ELSE IF j < NumConfigs THEN [ci |-> 1, cj |-> j + 1, pc |-> "loop"]
    ELSE [ci |-> i, cj |-> j, pc |-> "save"]

\* for contract in self.contracts: for config in self.configs.items()
AfterPair(i, j) ==
    IF j < NumConfigs THEN [ci |-> i, cj |-> j + 1, pc |-> "loop"]
    ELSE IF i < NumContracts THEN [ci |-> i + 1, cj |-> 1, pc |-> "loop"]
    ELSE [ci |-> i, cj |-> j, pc |-> "save"]

\* a caller that appends whatever the run operation returns
ReturnKeepingNull(r) ==
    /\ result' = r
    /\ IF mode = "sweep"
       THEN /\ allResults' = Append(allResults, r)
            /\ ci' = AfterPair(ci, cj).ci
            /\ cj' = AfterPair(ci, cj).cj
            /\ pc' = AfterPair(ci, cj).pc
       ELSE /\ pc' = "done"
            /\ UNCHANGED <<allResults, ci, cj>>

\* the run operation returns r (a dict, or <<>> for None) to its caller:
\* the sweep appends a dict to all_results and goes on with the next pair,
\* the single-pair entry point prints it and ends
Return(r) ==
    /\ result' = r
    /\ IF mode = "sweep"
       THEN /\ allResults' = IF r = <<>> THEN allResults ELSE Append(allResults, r)
            /\ ci' = AfterPair(ci, cj).ci
            /\ cj' = AfterPair(ci, cj).cj
            /\ pc' = AfterPair(ci, cj).pc
       ELSE /\ pc' = "done"
            /\ UNCHANGED <<allResults, ci, cj>>

\* a run that keeps what its poller collected
AfterWaitFromPoller(r, log) ==
    Put(IF variant = "rq3" THEN WithMetrics(r, poller.history) ELSE r,
        "end_time", "iso")

\* lines 318-333 (rq3) / 177 (ablation): what follows the wait
AfterWait(r, log) ==
    Put(IF variant = "rq3" THEN WithMetrics(r, ParseStateMetrics(log)) ELSE r,
        "end_time", "iso")

ProgramInit ==
    /\ variant \in Variants /\ pc = "main"
    /\ dirExists \in BOOLEAN
    /\ fs = [n \in Names |-> NoFile] /\ genBefore = fs /\ gens = 0
    /\ faults = 0 /\ current = 0 /\ progress = <<>>
    /\ allResults = <<>> /\ result = <<>> /\ clock = 0 /\ waitStart = 0
    /\ killedAt = <<>> /\ procs = {} /\ out = NoOutput
    /\ scrapeIdle
    /\ saves = 0 /\ poller = NoPoller /\ stray = NoStray /\ viz = NoViz

\* main() without arguments
SweepInit ==
    /\ mode = "sweep" /\ ProgramInit /\ logs = NoLogs
    /\ timeout = MainTimeout(variant) /\ ci = 1 /\ cj = 1

\* the constructor and the fixture generator, which both entry points run
\* first; an exception the generator raises ends the script
Begin ==
    /\ pc = "main" /\ mode \in {"sweep", "single"}
    /\ dirExists' = DirAfterInit(variant, dirExists)
    /\ genBefore' = fs /\ gens' = gens + 1
    /\ IF GenerateRaises(variant, dirExists, fs)
       THEN fs' = fs /\ pc' = "crashed"
       ELSE fs' = GenerateInto(variant, fs) /\ pc' = "loop"
    /\ UNCHANGED <<variant, mode, timeout, ci, cj, current, progress,
                   allResults, result, clock, waitStart, killedAt, procs,
                   faults, out>>
    /\ UNCHANGED scrapeVars
    /\ UNCHANGED sideVars

\* one turn of the loop up to the subprocess launch: the progress line, the
\* call of the run operation, its fixture check and its result dict
StartRun ==
    /\ pc = "loop"
    /\ current' = IF mode = "sweep" THEN current + 1 ELSE current
    /\ LET contract == Contracts[ci]
           config   == ConfigNames[cj]
           entry    == [current |-> current', contract |-> contract,
                        config |-> config, launch |-> "none",
                        wait |-> "none", returned |-> FALSE]
       IN  IF fs[contract] = NoFile
           THEN /\ progress' = Append(progress, entry)
                /\ Return(<<>>)
                /\ UNCHANGED <<clock, killedAt>>
           ELSE /\ progress' = Append(progress, entry)
                /\ result' = NewResult(variant, contract, config)
                /\ clock' = 0 /\ killedAt' = <<>>
                /\ pc' = "launch"
                /\ UNCHANGED <<allResults, ci, cj>>
    /\ UNCHANGED <<variant, mode, timeout, waitStart, procs, faults, out>>
    /\ UNCHANGED fixVars /\ UNCHANGED scrapeVars
    /\ UNCHANGED sideVars

\* Popen may take this long
SpawnDelays == IF mode = "single" THEN 0..MaxSpawn ELSE {0}

\* open(log_file, 'w') and subprocess.Popen(...) succeed
LaunchOk ==
    /\ pc = "launch"
    /\ \E d \in SpawnDelays : clock' = clock + d
    /\ logFile' = Log(<<>>)
    /\ logs' = [logs EXCEPT ![PairNo] = Log(<<>>)]
    /\ procs' = procs \cup {Pid}
    /\ progress' = NoteIn(progress, "launch", "ok")
    /\ waitStart' = clock'
    /\ pc' = IF variant = "rq3" THEN "monitor" ELSE "wait"
    /\ UNCHANGED <<variant, mode, timeout, ci, cj, current, allResults,
                   result, killedAt, faults, metrics, prevMetrics, scrapes,
                   out>>
    /\ UNCHANGED fixVars
    /\ UNCHANGED <<saves, poller, stray, viz>>

\* open(log_file, 'w') or subprocess.Popen(...) raises: no subprocess; the
\* log file is truncated when it is Popen that raises
LaunchRaises ==
    /\ pc = "launch" /\ faults < MaxFaults
    /\ faults' = faults + 1
    /\ \E f \in {logs[PairNo], Log(<<>>)} :
          logFile' = f /\ logs' = [logs EXCEPT ![PairNo] = f]
    /\ progress' = NoteIn(NoteIn(progress, "launch", "raised"), "returned", TRUE)
    /\ UNCHANGED <<variant, mode, timeout, current, clock, waitStart,
                   killedAt, procs, metrics, prevMetrics, scrapes, out>>
    /\ UNCHANGED fixVars
    /\ Return(Errored(result, "Popen raised"))
    /\ UNCHANGED <<saves, poller, stray, viz>>

\* rq3 only: monitor_process starts the poller thread and returns
MonitorOk ==
    /\ pc = "monitor"
    /\ poller' = [pc |-> "started", pos |-> 0, history |-> <<>>]
    /\ waitStart' = clock
    /\ pc' = "wait"
    /\ UNCHANGED <<variant, mode, timeout, ci, cj, current, progress,
                   allResults, result, clock, killedAt, procs, faults, out>>
    /\ UNCHANGED fixVars /\ UNCHANGED scrapeVars
    /\ UNCHANGED <<logs, saves, stray, viz>>

\* rq3 only: Thread.start() raises (RuntimeError: can't start new thread);
\* the outer handler records the error and the run returns, with the
\* subprocess neither waited for nor killed
MonitorRaises ==
    /\ pc = "monitor" /\ faults < MaxFaults
    /\ faults' = faults + 1
    /\ progress' = NoteIn(NoteIn(progress, "wait", "not waited"), "returned", TRUE)
    /\ UNCHANGED <<variant, mode, timeout, current, clock, waitStart,
                   killedAt, procs, out>>
    /\ UNCHANGED fixVars /\ UNCHANGED scrapeVars
    /\ Return(Errored(result, "Thread.start raised"))
    /\ UNCHANGED sideVars

\* proc.wait returns: the subprocess has exited (with any status)
WaitReturns ==
    /\ pc = "wait" /\ Pid \notin procs
    /\ progress' = NoteIn(NoteIn(progress, "wait", "exited"), "returned", TRUE)
    /\ metrics' = IF variant = "rq3" THEN ParseStateMetrics(logFile) ELSE metrics
    /\ UNCHANGED <<variant, mode, timeout, current, clock, waitStart,
                   killedAt, procs, faults, logFile, prevMetrics, scrapes, out>>
    /\ UNCHANGED fixVars
    /\ Return(AfterWait(Completed(result, clock), logFile))
    /\ UNCHANGED sideVars

\* proc.wait raises TimeoutExpired: the deadline has passed and the
\* subprocess is still running; proc.kill() (SIGKILL ends it at once)
WaitTimesOut ==
    /\ pc = "wait" /\ Pid \in procs
    /\ clock >= waitStart + Deadline(timeout)
    /\ procs' = procs \ {Pid}
    /\ killedAt' = <<clock>>
    /\ progress' = NoteIn(NoteIn(progress, "wait", "deadline"), "returned", TRUE)
    /\ metrics' = IF variant = "rq3" THEN ParseStateMetrics(logFile) ELSE metrics
    /\ UNCHANGED <<variant, mode, timeout, current, clock, waitStart, faults,
                   logFile, prevMetrics, scrapes, out>>
    /\ UNCHANGED fixVars
    /\ Return(AfterWait(TimedOut(result), logFile))
    /\ UNCHANGED sideVars

\* environment: a subprocess exits by itself
ProcExit(p) ==
    /\ p \in procs
    /\ procs' = procs \ {p}
    /\ UNCHANGED <<variant, mode, timeout, pc, ci, cj, current, progress,
                   allResults, result, clock, waitStart, killedAt, faults, out>>
    /\ UNCHANGED fixVars /\ UNCHANGED scrapeVars
    /\ UNCHANGED sideVars

\* environment: a centisecond passes while the run waits
Tick ==
    /\ mode = "single" /\ pc = "wait"
    /\ clock < waitStart + Deadline(timeout) + MaxSlack
    /\ clock' = clock + 1
    /\ UNCHANGED <<variant, mode, timeout, pc, ci, cj, current, progress,
                   allResults, result, waitStart, killedAt, procs, faults, out>>
    /\ UNCHANGED fixVars /\ UNCHANGED scrapeVars
    /\ UNCHANGED sideVars

\* environment: the subprocess is still running when the deadline comes
DeadlinePasses ==
    /\ mode # "single" /\ pc = "wait" /\ Pid \in procs
    /\ clock < waitStart + Deadline(timeout)
    /\ faults < MaxFaults
    /\ faults' = faults + 1
    /\ clock' = waitStart + Deadline(timeout)
    /\ UNCHANGED <<variant, mode, timeout, pc, ci, cj, current, progress,
                   allResults, result, waitStart, killedAt, procs, out>>
    /\ UNCHANGED fixVars /\ UNCHANGED scrapeVars
    /\ UNCHANGED sideVars

\* environment: a fixture is deleted while the sweep runs
FixtureVanishes(n) ==
    /\ mode = "sweep" /\ pc \in {"loop", "launch", "monitor", "wait"}
    /\ fs[n] # NoFile /\ faults < MaxFaults
    /\ faults' = faults + 1
    /\ fs' = [fs EXCEPT ![n] = NoFile]
    /\ UNCHANGED <<variant, mode, timeout, pc, ci, cj, current, progress,
                   allResults, result, clock, waitStart, killedAt, procs, out,
                   dirExists, genBefore, gens>>
    /\ UNCHANGED scrapeVars
    /\ UNCHANGED sideVars

-----------------------------------------------------------------------------
(* The poller thread of the rq3 variant: monitor_process.read_output, and *)
(* the subprocess writing its log while the run waits                     *)

\* the working directory may hold a file whose path is the text of a line
Strays == {NoStray} \cup
          {[name |-> <<l>>, file |-> Log(<<m>>)] : l, m \in ProcLines}

\* open(path, 'r') where the path is the text of a log line
FileNamed(line) == IF stray.name = <<line>> THEN stray.file ELSE NoLog

\* metrics = self.parse_state_metrics(line): the line is passed as the path
\* of the file to scrape
PollerParse(line) == ParseStateMetrics(FileNamed(line))

\* the subprocess appends a line to its stdout, the pair's log file
ProcWrites(l) ==
    /\ mode = "poll" /\ Pid \in procs /\ pc \in {"monitor", "wait"}
    /\ logFile.exists /\ Len(logFile.lines) < MaxLines
    /\ logFile' = Log(Append(logFile.lines, l))
    /\ logs' = [logs EXCEPT ![PairNo] = logFile']
    /\ UNCHANGED <<variant, mode, timeout, pc, ci, cj, current, progress,
                   allResults, result, clock, waitStart, killedAt, procs,
                   faults, metrics, prevMetrics, scrapes, out, saves, poller,
                   stray, viz>>
    /\ UNCHANGED fixVars

\* with open(log_file, 'r') as f; a missing file raises and `except: pass`
\* ends the thread
PollerOpens ==
    /\ mode = "poll" /\ poller.pc = "started"
    /\ poller' = [poller EXCEPT !.pc = IF logFile.exists THEN "poll" ELSE "ended"]
    /\ UNCHANGED <<variant, mode, timeout, pc, ci, cj, current, progress,
                   allResults, result, clock, waitStart, killedAt, procs,
                   faults, out, logs, saves, stray, viz>>
    /\ UNCHANGED fixVars /\ UNCHANGED scrapeVars

\* while process.poll() is None
PollerPolls ==
    /\ mode = "poll" /\ poller.pc = "poll"
    /\ poller' = [poller EXCEPT !.pc = IF Pid \in procs THEN "read" ELSE "ended"]
    /\ UNCHANGED <<variant, mode, timeout, pc, ci, cj, current, progress,
                   allResults, result, clock, waitStart, killedAt, procs,
                   faults, out, logs, saves, stray, viz>>
    /\ UNCHANGED fixVars /\ UNCHANGED scrapeVars

\* the loop body: line = f.readline(); if line: parse it and extend
\* metrics_history with what comes back; time.sleep(0.1)
PollerReads ==
    /\ mode = "poll" /\ poller.pc = "read"
    /\ IF poller.pos < Len(logFile.lines)
       THEN LET line == logFile.lines[poller.pos + 1]
            IN  poller' = [pc |-> "poll", pos |-> poller.pos + 1,
                           history |-> poller.history \o PollerParse(line)]
       ELSE poller' = [poller EXCEPT !.pc = "poll"]
    /\ UNCHANGED <<variant, mode, timeout, pc, ci, cj, current, progress,
                   allResults, result, clock, waitStart, killedAt, procs,
                   faults, out, logs, saves, stray, viz>>
    /\ UNCHANGED fixVars /\ UNCHANGED scrapeVars

\* `single dvd_unstoppable ItyFuzz` of the rq3 script, constructed and its
\* fixtures generated, about to call run_fuzzing_with_metrics
PollInit ==
    /\ mode = "poll" /\ variant = "rq3" /\ pc = "loop"
    /\ timeout = MainTimeout("rq3") /\ ci = 1 /\ cj = 1
    /\ dirExists = TRUE /\ fs = GenerateInto("rq3", [n \in Names |-> NoFile])
    /\ genBefore = [n \in Names |-> NoFile] /\ gens = 1
    /\ runIdle /\ scrapeIdle /\ faults = 0
    /\ logs = NoLogs /\ saves = 0 /\ poller = NoPoller /\ viz = NoViz
    /\ stray \in Strays

PollNext ==
    \/ StartRun
    \/ LaunchOk
    \/ LaunchRaises
    \/ MonitorOk
    \/ MonitorRaises
    \/ WaitReturns
    \/ WaitTimesOut
    \/ \E p \in procs : ProcExit(p)
    \/ DeadlinePasses
    \/ \E l \in ProcLines : ProcWrites(l)
    \/ PollerOpens
    \/ PollerPolls
    \/ PollerReads

SpecPoll == PollInit /\ [][PollNext]_vars

-----------------------------------------------------------------------------
(* Result writer: save_results *)

\* format(value, '<15') and the like: a str formats, None raises TypeError
\* ("unsupported format string passed to NoneType.__format__")
FormatRaises(value) == value = PyNone

\* the console table line of one result
TableLine(r) == <<r.project, r.config, r.detection_time>>

\* the CSV row of one result (the fields both variants write)
CsvRow(r) == [project |-> r.project, config |-> r.config,
              detection_time |-> IF r.detection_time = PyNone
                                 THEN <<"">> ELSE r.detection_time,
              status |-> r.status]

\* the table loop: the lines printed before format() first raises
RECURSIVE TableLines(_)
TableLines(results) ==
    IF results = <<>> \/ FormatRaises(Head(results).detection_time) THEN <<>>
    ELSE <<TableLine(Head(results))>> \o TableLines(Tail(results))

TableRaises(results) ==
    \E i \in 1..Len(results) : FormatRaises(results[i].detection_time)

\* sum(1 for r in results if r["status"] == "completed")
CountCompleted(results) ==
    Cardinality({i \in 1..Len(results) : results[i].status = "completed"})

\* sum(1 for r in results if r["timeout"])
CountTimeouts(results) ==
    Cardinality({i \in 1..Len(results) : results[i].timeout})

\* the counts printed last: <<total, completed, timed out>>
Summary(results) ==
    <<Len(results), CountCompleted(results), CountTimeouts(results)>>

\* a writer that opens the file for appending
AppendRows(old, rows) == old \o rows

\* with open(file, 'w') as f: ... the file holds what this call writes
WriteRows(old, rows) == rows

\* json.dump(results, f, indent=2, default=str) of one result: None is
\* written as null, every other value of a result is a JSON value
JsonRecord(r) ==
    [r EXCEPT !.detection_time = IF @ = PyNone THEN <<"null">> ELSE @]

\* save_results(results) in variant v with `prev` on disk: what is on disk
\* and on the console afterwards
Saved(prev, v, results) ==
    IF results = <<>>
    THEN [prev EXCEPT !.prior = Len(prev.csv), !.table = <<>>,
                      !.summary = <<>>,
                      !.raised = FALSE]
    ELSE [csv |-> WriteRows(prev.csv,
                            [i \in 1..Len(results) |-> CsvRow(results[i])]),
          written |-> TRUE,
          json |-> IF v = "rq3"
                   THEN WriteRows(prev.json,
                                  [i \in 1..Len(results) |-> JsonRecord(results[i])])
                   ELSE prev.json,
          jsonWritten |-> (v = "rq3") \/ prev.jsonWritten,
          prior |-> Len(prev.csv),
          table |-> TableLines(results),
          summary |-> IF TableRaises(results) THEN <<>> ELSE Summary(results),
          raised |-> TableRaises(results)]

\* save_results(results), called by main() after the sweep
SaveResults ==
    /\ pc = "save"
    /\ out' = Saved(out, variant, allResults)
    /\ saves' = saves + 1
    /\ pc' = IF out'.raised THEN "crashed" ELSE "done"
    /\ UNCHANGED <<variant, mode, timeout, ci, cj, current, progress,
                   allResults, result, clock, waitStart, killedAt, procs,
                   faults>>
    /\ UNCHANGED fixVars /\ UNCHANGED scrapeVars
    /\ UNCHANGED <<logs, poller, stray, viz>>

Next ==
    \/ Begin
    \/ StartRun
    \/ LaunchOk
    \/ LaunchRaises
    \/ MonitorOk
    \/ MonitorRaises
    \/ WaitReturns
    \/ WaitTimesOut
    \/ \E p \in procs : ProcExit(p)
    \/ DeadlinePasses
    \/ \E n \in Names : FixtureVanishes(n)
    \/ SaveResults

Spec == SweepInit /\ [][Next]_vars

\* main() without arguments, in the working directory an earlier sweep of
\* the same script has left: contracts/ with its fixtures and one log per
\* pair
ResweepInit ==
    /\ mode = "sweep" /\ variant \in Variants /\ pc = "main"
    /\ timeout = MainTimeout(variant) /\ ci = 1 /\ cj = 1
    /\ dirExists = TRUE /\ fs = GenerateInto(variant, [n \in Names |-> NoFile])
    /\ genBefore = fs /\ gens = 0 /\ faults = 0
    /\ runIdle /\ scrapeIdle
    /\ logs = StaleLogs
    /\ saves = 0 /\ poller = NoPoller /\ stray = NoStray /\ viz = NoViz

SpecResweep == ResweepInit /\ [][Next]_vars

\* main() with "single <contract> [<config>]"
SingleInit ==
    /\ mode = "single" /\ ProgramInit /\ logs = NoLogs
    /\ timeout \in 0..MaxTimeout
    /\ ci \in 1..NumContracts /\ cj \in 1..NumConfigs

RunNext ==
    \/ Begin
    \/ StartRun
    \/ LaunchOk
    \/ LaunchRaises
    \/ MonitorOk
    \/ MonitorRaises
    \/ WaitReturns
    \/ WaitTimesOut
    \/ \E p \in procs : ProcExit(p)
    \/ Tick

SpecRun == SingleInit /\ [][RunNext]_vars

-----------------------------------------------------------------------------
(* Claims about one run *)

WaitEnds == pc = "wait" /\ pc' # "wait"

\* timeout + 10 seconds, in centiseconds
C2_Deadline == (timeout + 10) * 100

\* C2: a wait that ends with the subprocess still running ends at or after
\* the deadline of timeout + 10 seconds from launch, kills the subprocess
\* and returns status "timeout", timeout true, detection_time "Timeout"; and
\* no kill happens before that deadline.
C2_TimeoutAtDeadline ==
    [][/\ (WaitEnds /\ Pid \in procs) =>
             /\ clock >= waitStart + C2_Deadline
             /\ Pid \notin procs' /\ killedAt' = <<clock>>
             /\ result'.status = "timeout"
             /\ result'.timeout = TRUE
             /\ result'.detection_time = TimeoutToken
       /\ (killedAt' # killedAt /\ killedAt' # <<>>) =>
             killedAt'[1] >= waitStart + C2_Deadline
       /\ (WaitEnds /\ result'.status = "timeout") => Pid \in procs]_vars

\* a run with a timeout of 1 s killed exactly 11 s after its launch
C2_Witness ==
    /\ pc = "done" /\ timeout = 1 /\ result.status = "timeout"
    /\ killedAt = <<waitStart + 1100>> /\ Pid \notin procs

\* C3: a wait that ends with the subprocess exited returns status
\* "completed", timeout false, and as detection_time the elapsed time since
\* the start, to the nearest tenth of a second, followed by "s".
C3_CompletedWithElapsed ==
    [][(WaitEnds /\ Pid \notin procs) =>
          /\ result'.status = "completed"
          /\ result'.timeout = FALSE
          /\ result'.detection_time # TimeoutToken
          /\ \E whole \in 0..(clock \div 100 + 1), tenth \in 0..9 :
                /\ result'.detection_time = <<"s", whole, tenth>>
                /\ (whole * 10 + tenth) * 10 - clock <= 5
                /\ clock - (whole * 10 + tenth) * 10 <= 5]_vars

\* a subprocess that exited 0.07 s after the start: "0.1s"
C3_Witness ==
    /\ pc = "done" /\ clock = 7 /\ result.status = "completed"
    /\ result.detection_time = <<"s", 0, 1>>

-----------------------------------------------------------------------------
(* Claims about the sweep *)

LoopOver == pc \in {"save", "done", "crashed"} /\ Len(progress) = NumPairs

LaunchFailures == {k \in 1..Len(progress) : progress[k].launch = "raised"}

\* every fixture was there and nothing but launches raised
OnlyLaunchesFail ==
    \A k \in 1..Len(progress) :
        progress[k].launch # "none" /\ progress[k].wait # "not waited"

\* C4: when exactly one pair raises during launch (and every fixture
\* exists), the sweep returns one result per pair, the failed pair's with
\* status "error" and the exception text, every other with the status its
\* own wait gives it.
C4_SweepIsolation ==
    (LoopOver /\ OnlyLaunchesFail /\ Cardinality(LaunchFailures) = 1) =>
        /\ Len(allResults) = NumPairs
        /\ \A k \in 1..NumPairs :
              /\ allResults[k].project = progress[k].contract
              /\ allResults[k].config = progress[k].config
              /\ IF k \in LaunchFailures
                 THEN /\ allResults[k].status = "error"
                      /\ "error" \in DOMAIN allResults[k]
                      /\ allResults[k].error = "Popen raised"
                 ELSE allResults[k].status =
                          IF progress[k].wait = "exited" THEN "completed"
                          ELSE "timeout"
        /\ Cardinality({k \in 1..NumPairs : allResults[k].status = "error"}) = 1

\* a finished sweep whose second pair failed to launch and whose last pair
\* timed out
C4_Witness ==
    /\ LoopOver /\ OnlyLaunchesFail /\ LaunchFailures = {2}
    /\ allResults[NumPairs].status = "timeout"
    /\ allResults[1].status = "completed"

\* C5: save_results of a non-empty result list writes one row and prints
\* one table line per result, then the counts, and does not raise.
C5_SaveCompletes ==
    (pc \in {"done", "crashed"} /\ Len(progress) = NumPairs /\ allResults # <<>>) =>
        /\ ~out.raised
        /\ pc = "done"
        /\ Len(out.csv) = Len(allResults)
        /\ Len(out.table) = Len(allResults)
        /\ out.summary # <<>>

\* C6: the k-th run started is the pair (contracts[(k-1) div |configs|],
\* configs[(k-1) mod |configs|]) with progress counter k, a finished sweep
\* has started one run per pair, and the results are in that order.
Returned(entry) == entry.returned

ReturnedPairs ==
    LET kept == SelectSeq(progress, Returned)
    IN  [k \in 1..Len(kept) |-> <<kept[k].contract, kept[k].config>>]

ResultPairs ==
    [k \in 1..Len(allResults) |-> <<allResults[k].project, allResults[k].config>>]

C6_CatalogOrder ==
    /\ Len(progress) <= NumPairs
    /\ pc \in {"save", "done"} => Len(progress) = NumPairs
    /\ \A k \in 1..Len(progress) :
          /\ progress[k].current = k
          /\ progress[k].contract = Contracts[((k - 1) \div NumConfigs) + 1]
          /\ progress[k].config = ConfigNames[((k - 1) % NumConfigs) + 1]
    /\ ResultPairs = ReturnedPairs

\* a finished sweep that skipped one pair for a missing fixture
C6_Witness ==
    /\ pc = "save" /\ Len(progress) = NumPairs
    /\ Len(allResults) = NumPairs - 1
    /\ ~progress[NumPairs].returned

\* C7: at most one subprocess launched by the orchestrator is alive at any
\* moment.
C7_OneFuzzerAtATime == Cardinality(procs) <= 1

-----------------------------------------------------------------------------
(* Claims about the poller thread *)

\* the run's log file scraped as it is left on disk once the wait has ended
FinalScrape == ParseStateMetrics(logFile)

WaitHasEnded ==
    /\ pc = "done" /\ result # <<>>
    /\ result.status \in {"completed", "timeout"}

\* C11: once the wait has ended the returned result's metrics_timeline is
\* the scrape of the log file as it then is, and its summary statistics are
\* those of that scrape, whatever the poller has read and collected; and no
\* step that changes the poller's state changes the result.
C11_ScrapeIsKept ==
    /\ [](WaitHasEnded =>
            /\ result.metrics_timeline = FinalScrape
            /\ IF FinalScrape = <<>>
               THEN /\ result.max_state_corpus = 0
                    /\ result.final_memory_mb = 0
               ELSE /\ \A i \in 1..Len(FinalScrape) :
                          result.max_state_corpus >= FinalScrape[i].corpus_size
                    /\ \E i \in 1..Len(FinalScrape) :
                          result.max_state_corpus = FinalScrape[i].corpus_size
                    /\ result.final_memory_mb =
                          FinalScrape[Len(FinalScrape)].memory_mb)
    /\ [][poller' # poller => result' = result]_vars

\* a run has returned with a one-sample timeline scraped from its log while
\* its poller, having read both lines of the log, holds a different,
\* non-empty metrics_history
C11_Witness ==
    /\ WaitHasEnded /\ poller.pos = 2
    /\ poller.history # <<>>
    /\ Len(result.metrics_timeline) = 1
    /\ poller.history # result.metrics_timeline

\* the step in which the poller reads a line of the log
PollerReadsLine ==
    /\ poller.pc = "read" /\ poller'.pc = "poll"
    /\ poller'.pos = poller.pos + 1

\* C17: every line the poller reads on which the state, corpus or memory
\* pattern matches adds a sample to metrics_history.
C17_PollerExtracts ==
    [][(PollerReadsLine /\ Emits(logFile.lines[poller.pos + 1])) =>
          Len(poller'.history) = Len(poller.history) + 1]_vars

-----------------------------------------------------------------------------
(* Specification of the result writer alone: the script is run again and  *)
(* again in one working directory; each sweep is taken by the result list *)
(* it returns, which save_results is then given.                          *)

OutcomeKinds == {"completed", "timeout", "error"}

\* what a pair's run returns: after its subprocess exited, after the
\* deadline, after a launch that raised
Outcome(v, contract, config, kind) ==
    CASE kind = "completed" ->
            AfterWait(Completed(NewResult(v, contract, config), 1234), NoLog)
      [] kind = "timeout" ->
            AfterWait(TimedOut(NewResult(v, contract, config)), NoLog)
      [] kind = "error" ->
            Errored(NewResult(v, contract, config), "Popen raised")

\* the result lists of sweeps in which the first n pairs return a result
ResultLists(v) ==
    UNION {{[k \in 1..n |-> Outcome(v, Contracts[1], ConfigNames[k], kinds[k])]
              : kinds \in [1..n -> OutcomeKinds]}
           : n \in 0..MaxResults}

SaveInit ==
    /\ mode = "save" /\ variant \in Variants /\ pc = "main"
    /\ timeout = MainTimeout(variant) /\ ci = 1 /\ cj = 1
    /\ dirExists = TRUE /\ fs = [n \in Names |-> NoFile] /\ genBefore = fs
    /\ gens = 0 /\ faults = 0
    /\ runIdle /\ scrapeIdle /\ sideIdle

\* main() calls run_all_tests() / run_rq3_analysis(): all_results = []
SweepBegins ==
    /\ mode = "save" /\ pc \in {"main", "done", "crashed"}
    /\ saves < MaxSaves
    /\ allResults' = <<>>
    /\ pc' = "sweeping"
    /\ UNCHANGED <<variant, mode, timeout, ci, cj, current, progress, result,
                   clock, waitStart, killedAt, procs, faults, out>>
    /\ UNCHANGED fixVars /\ UNCHANGED scrapeVars /\ UNCHANGED sideVars

\* the next pair's run returns a result, which is appended
PairReturns(kind) ==
    /\ mode = "save" /\ pc = "sweeping"
    /\ Len(allResults) < MaxResults /\ Len(allResults) < NumConfigs
    /\ allResults' = Append(allResults,
                            Outcome(variant, Contracts[1],
                                    ConfigNames[Len(allResults) + 1], kind))
    /\ UNCHANGED <<variant, mode, timeout, pc, ci, cj, current, progress,
                   result, clock, waitStart, killedAt, procs, faults, out>>
    /\ UNCHANGED fixVars /\ UNCHANGED scrapeVars /\ UNCHANGED sideVars

\* the remaining pairs are skipped and the sweep returns its list
SweepEnds ==
    /\ mode = "save" /\ pc = "sweeping"
    /\ pc' = "save"
    /\ UNCHANGED <<variant, mode, timeout, ci, cj, current, progress,
                   allResults, result, clock, waitStart, killedAt, procs,
                   faults, out>>
    /\ UNCHANGED fixVars /\ UNCHANGED scrapeVars /\ UNCHANGED sideVars

SaveNext ==
    \/ SweepBegins
    \/ \E kind \in OutcomeKinds : PairReturns(kind)
    \/ SweepEnds
    \/ SaveResults

SpecSave == SaveInit /\ [][SaveNext]_vars

\* the rows on disk are those of the list given, one per result, in order
CsvHolds(results) ==
    /\ Len(out.csv) = Len(results)
    /\ \A i \in 1..Len(results) :
          /\ out.csv[i].project = results[i].project
          /\ out.csv[i].config = results[i].config
          /\ out.csv[i].status = results[i].status

JsonHolds(results) ==
    /\ Len(out.json) = Len(results)
    /\ \A i \in 1..Len(results) :
          /\ out.json[i].project = results[i].project
          /\ out.json[i].config = results[i].config
          /\ out.json[i].status = results[i].status

SaveReturned == mode = "save" /\ saves > 0 /\ pc \in {"done", "crashed"}

\* C12 as claimed: after every save_results call the CSV (and in the rq3
\* variant the JSON) holds exactly the records of the list given to that
\* call, the empty list included.
C12_RewritesAlways ==
    SaveReturned => /\ CsvHolds(allResults)
                    /\ variant = "rq3" => JsonHolds(allResults)

\* C12 amended: after every save_results call given a non-empty list the CSV
\* (and in the rq3 variant the JSON) holds exactly the records of that list;
\* a call given the empty list leaves both files as they were.
C12_RewritesNonEmpty ==
    /\ []((SaveReturned /\ allResults # <<>>) =>
             /\ CsvHolds(allResults)
             /\ variant = "rq3" => JsonHolds(allResults))
    /\ [][(saves' # saves /\ allResults = <<>>) =>
             (out'.csv = out.csv /\ out'.json = out.json)]_vars

\* a save of one result over the two rows an earlier save left
C12_Witness ==
    /\ SaveReturned /\ saves = 2 /\ Len(allResults) = 1
    /\ out.prior = 2 /\ Len(out.csv) = 1
    /\ out.csv[1].status = "timeout"

-----------------------------------------------------------------------------
(* Visualizer: rq3_visualization.py, run in a working directory as it is  *)
(* found                                                                   *)

PlotNames == {"state_corpus_timeline.png", "memory_comparison.png",
              "detection_time_comparison.png"}

\* rq3_metrics.json with zero bytes
BlankFile == [exists |-> TRUE, blank |-> TRUE, doc |-> <<>>]

\* rq3_metrics.json as save_results writes it
JsonFile(results) ==
    [exists |-> TRUE, blank |-> FALSE,
     doc |-> [i \in 1..Len(results) |-> JsonRecord(results[i])]]

MetricsFiles ==
    {NoMetricsFile, BlankFile} \cup {JsonFile(l) : l \in ResultLists("rq3")}

\* the working directories the script may be started in: results_rq3/ is
\* there or not, with or without plots/ (and the images of an earlier run)
\* and data/rq3_metrics.json
WorkDirs ==
    {w \in [pc : {"off"}, resultsDir : BOOLEAN, plotsDir : BOOLEAN,
            metricsFile : MetricsFiles, images : SUBSET PlotNames,
            made : {{}}, raised : {FALSE}] :
        /\ ~w.resultsDir => (~w.plotsDir /\ ~w.metricsFile.exists)
        /\ ~w.plotsDir => w.images = {}}

VizInit ==
    /\ mode = "viz" /\ variant = "rq3" /\ pc = "main"
    /\ timeout = MainTimeout("rq3") /\ ci = 1 /\ cj = 1
    /\ dirExists = TRUE /\ fs = [n \in Names |-> NoFile] /\ genBefore = fs
    /\ gens = 0 /\ faults = 0
    /\ runIdle /\ scrapeIdle
    /\ logs = NoLogs /\ saves = 0 /\ poller = NoPoller /\ stray = NoStray
    /\ viz \in WorkDirs

vizRest == <<variant, mode, timeout, pc, ci, cj, current, progress,
             allResults, result, clock, waitStart, killedAt, procs, faults,
             out, logs, saves, poller, stray>>

\* Path.mkdir(exist_ok=True): made (or there already) when the parent
\* directory exists, FileNotFoundError when it does not
Mkdir(parentExists) == parentExists

\* RQ3Visualizer()
VizConstruct ==
    /\ mode = "viz" /\ viz.pc = "off"
    /\ IF Mkdir(viz.resultsDir)
       THEN viz' = [viz EXCEPT !.pc = "constructed", !.plotsDir = TRUE,
                               !.resultsDir = TRUE]
       ELSE viz' = [viz EXCEPT !.pc = "raised", !.raised = TRUE]
    /\ UNCHANGED vizRest /\ UNCHANGED fixVars /\ UNCHANGED scrapeVars

\* load_metrics(): [] when the file is absent, else json.load(f), which
\* raises JSONDecodeError on a file with zero bytes
LoadMetrics(file) ==
    IF ~file.exists THEN [raised |-> FALSE, metrics |-> <<>>]
    ELSE IF file.blank THEN [raised |-> TRUE, metrics |-> <<>>]
    ELSE [raised |-> FALSE, metrics |-> file.doc]

\* generate_all_plots(): nothing is drawn without metrics; with metrics each
\* of the three plot methods saves its image
GenerateAllPlots ==
    /\ mode = "viz" /\ viz.pc = "constructed"
    /\ LET loaded == LoadMetrics(viz.metricsFile)
       IN  IF loaded.raised
           THEN viz' = [viz EXCEPT !.pc = "raised", !.raised = TRUE]
           ELSE IF loaded.metrics = <<>>
           THEN viz' = [viz EXCEPT !.pc = "done"]
           ELSE viz' = [viz EXCEPT !.pc = "done", !.made = PlotNames,
                                   !.images = @ \cup PlotNames]
    /\ UNCHANGED vizRest /\ UNCHANGED fixVars /\ UNCHANGED scrapeVars

VizNext == VizConstruct \/ GenerateAllPlots

SpecViz == VizInit /\ [][VizNext]_vars

NoUsableMetrics ==
    \/ ~viz.metricsFile.exists
    \/ viz.metricsFile.blank
    \/ viz.metricsFile.doc = <<>>

\* C13: a run of the visualizer that finds the metrics file absent or empty
\* (results_rq3/ missing and a file of zero bytes included) ends without
\* raising and without writing an image.
C13_QuietWithoutMetrics ==
    (viz.pc \in {"done", "raised"} /\ NoUsableMetrics) =>
        /\ ~viz.raised
        /\ viz.made = {}

-----------------------------------------------------------------------------
(* More claims about the fixture generators, the run and the scraper *)

\* C14: a script started in a working directory without contracts/ ends its
\* constructor and fixture generator with the directory made and
\* contracts/<name>.sol present for every catalog name, in both variants.
C14_GeneratorMakesDirectory ==
    [][(gens' # gens /\ ~dirExists) =>
          /\ dirExists'
          /\ \A n \in Names : fs'[n] # NoFile]_vars

\* the step in which the run operation is called for the pair in progress
RunCalled == pc = "loop" /\ Len(progress') = Len(progress) + 1

\* C15: a run called for a pair whose fixture is missing returns null, with
\* no subprocess launched and no log file created or truncated; the sweep
\* appends nothing and goes on to the next pair (or, after the last, to
\* save_results).
C15_MissingFixtureSkipped ==
    [][(RunCalled /\ fs[Contracts[ci]] = NoFile) =>
          /\ result' = <<>>
          /\ procs' = procs
          /\ logs' = logs
          /\ allResults' = allResults
          /\ IF PairNo < NumPairs
             THEN pc' = "loop" /\ PairNo' = PairNo + 1
             ELSE pc' = "save"]_vars

\* a sweep over the logs of an earlier one has skipped a pair, whose log
\* still holds its line, and launched the pair after it
C15_Witness ==
    \E k \in 1..(Len(progress) - 1) :
        /\ progress[k].launch = "none" /\ ~progress[k].returned
        /\ logs[k] = Log(<<CorpusLine>>)
        /\ progress[k + 1].launch = "ok"
        /\ Len(allResults) < k

\* C16: every result the run operation returns holds a start timestamp, an
\* end timestamp and a status among pending, completed, timeout and error,
\* whatever its outcome.
C16_TimestampsAndStatus ==
    \A i \in 1..Len(allResults) :
        /\ {"start_time", "end_time"} \subseteq DOMAIN allResults[i]
        /\ allResults[i].status \in {"pending", "completed", "timeout", "error"}

CountErrors(results) ==
    Cardinality({i \in 1..Len(results) : results[i].status = "error"})

\* C18: in every returned result the timeout flag is set exactly when the
\* status is "timeout" and the status is not "pending"; so the number of
\* results is the completed count (by status) plus the timeout count (by
\* flag) plus the number of errors, also in the counts save_results prints.
C18_FlagMatchesStatus ==
    /\ \A i \in 1..Len(allResults) :
          /\ allResults[i].timeout <=> allResults[i].status = "timeout"
          /\ allResults[i].status # "pending"
    /\ Len(allResults) = CountCompleted(allResults) + CountTimeouts(allResults)
                            + CountErrors(allResults)
    /\ out.summary # <<>> =>
          out.summary[1] = out.summary[2] + out.summary[3]
                              + CountErrors(allResults)

\* a sweep has printed its counts with completed and timed-out runs among
\* them
C18_Witness ==
    /\ pc = "done" /\ out.summary # <<>>
    /\ out.summary[1] = NumPairs
    /\ out.summary[2] > 0 /\ out.summary[3] > 0

\* C19: the timestamps of a scraped sample sequence never decrease along
\* the sequence.
C19_TimestampsOrdered ==
    scrapes > 0 =>
        \A i, j \in 1..Len(metrics) :
            i < j => metrics[i].timestamp <= metrics[j].timestamp

====
